---- MODULE Spec2Model ----
(***************************************************************************)
(* Model of the HTTP request-head parser of src/parse.cpp: Parser::parse,  *)
(* Parser::split_headers and Parser::string_split, and a caller that owns  *)
(* a buffer and a Request record (as main does).                           *)
(*                                                                         *)
(* Bytes are their ASCII codes; a std::string is a sequence of bytes and   *)
(* C++ index k is TLA+ index k + 1.  One action is one iteration of the    *)
(* scanning loop (one case of the switch), plus one action for the code    *)
(* after the loop.                                                         *)
(***************************************************************************)
EXTENDS Integers, Sequences, FiniteSets, TLC

VARIABLES data, len, req, i, state, headers, stop, result, pc, reads, req0,
          calls, prev

vars == <<data, len, req, i, state, headers, stop, result, pc, reads, req0,
          calls, prev>>

(***************************************************************************)
(* Program constants.                                                      *)
(***************************************************************************)
SPACE == 32
CR == 13
LF == 10
CRLF == <<CR, LF>>
KVSEP == <<58, 32>>          \* the literal ": "
npos == -1                   \* std::string::npos, only ever compared
max_method_len == 32
max_url_len == 1024
max_version_len == 32

ParseResult ==
    {"success", "method_too_long", "url_too_long", "version_too_long",
     "invalid_method", "invalid_url", "invalid_version", "invalid_format",
     "invalid_headers", "invalid_crlf"}

State == {"method", "url", "version", "headers"}

EmptyMap == [k \in {} |-> <<>>]

\* A default-constructed Request.
Request == [method |-> <<>>, url |-> <<>>, version |-> <<>>, headers |-> EmptyMap]

(***************************************************************************)
(* std::string operations used by the code.                                *)
(***************************************************************************)
SetMin(S) == CHOOSE x \in S : \A y \in S : x <= y

\* str.find(pat, start): the first index >= start where pat occurs, or npos.
Find(str, pat, start) ==
    LET hits == {k \in start..(Len(str) - Len(pat)) :
                    \A j \in 1..Len(pat) : str[k + j] = pat[j]}
    IN  IF hits = {} THEN npos ELSE SetMin(hits)

\* str.substr(pos, n), for pos <= size.
SubStr(str, pos, n) ==
    SubSeq(str, pos + 1, IF pos + n > Len(str) THEN Len(str) ELSE pos + n)

\* str.substr(pos), for pos <= size.
SubStrFrom(str, pos) == SubSeq(str, pos + 1, Len(str))

\* data[k]: operator[] of a const std::string; data[size()] is the NUL byte.
Byte(d, k) == IF k < Len(d) THEN d[k + 1] ELSE 0

\* A map insertion that overwrites the value of a key already present.
emplace_overwrites(h, key, value) ==
    [k \in DOMAIN h \cup {key} |-> IF k = key THEN value ELSE h[k]]

\* std::map::emplace: inserts only when the key is absent.
emplace(h, key, value) ==
    IF key \in DOMAIN h
    THEN h
    ELSE [k \in DOMAIN h \cup {key} |-> IF k = key THEN value ELSE h[k]]

\* string_split that drops an empty last token.
RECURSIVE string_split_loop_drops_empty_tail(_, _, _, _, _)
string_split_loop_drops_empty_tail(str, delimiter, start, end, tokens) ==
    IF end # npos
    THEN string_split_loop_drops_empty_tail(str, delimiter,
                           end + Len(delimiter),
                           Find(str, delimiter, end + Len(delimiter)),
                           Append(tokens, SubStr(str, start, end - start)))
    ELSE IF start = Len(str)
    THEN tokens
    ELSE Append(tokens, SubStrFrom(str, start))

(***************************************************************************)
(* Parser::string_split: the while loop, then the last token.              *)
(***************************************************************************)
RECURSIVE string_split_loop(_, _, _, _, _)
string_split_loop(str, delimiter, start, end, tokens) ==
    IF end # npos
    THEN string_split_loop(str, delimiter, end + Len(delimiter),
                           Find(str, delimiter, end + Len(delimiter)),
                           Append(tokens, SubStr(str, start, end - start)))
    ELSE Append(tokens, SubStrFrom(str, start))

string_split(str, delimiter) ==
    string_split_loop(str, delimiter, 0, Find(str, delimiter, 0), <<>>)

\* split_headers that skips a line without separator instead of failing.
RECURSIVE split_headers_loop_skips_bad_line(_, _, _)
split_headers_loop_skips_bad_line(tokens, n, r) ==
    IF n > Len(tokens)
    THEN [ok |-> TRUE, req |-> r]
    ELSE LET token == tokens[n]
             iter == Find(token, KVSEP, 0)
         IN  IF iter = npos
             THEN split_headers_loop_skips_bad_line(tokens, n + 1, r)
             ELSE split_headers_loop_skips_bad_line(tokens, n + 1,
                    [r EXCEPT !.headers =
                        emplace(@, SubStr(token, 0, iter),
                                   SubStrFrom(token, iter + 2))])

\* split_headers with the value taken from iter + 1 (the separator's space kept).
RECURSIVE split_headers_loop_value_from_space(_, _, _)
split_headers_loop_value_from_space(tokens, n, r) ==
    IF n > Len(tokens)
    THEN [ok |-> TRUE, req |-> r]
    ELSE LET token == tokens[n]
             iter == Find(token, KVSEP, 0)
         IN  IF iter = npos
             THEN [ok |-> FALSE, req |-> r]
             ELSE split_headers_loop_value_from_space(tokens, n + 1,
                    [r EXCEPT !.headers =
                        emplace(@, SubStr(token, 0, iter),
                                   SubStrFrom(token, iter + 1))])

\* The position of the last occurrence of pat in str, or npos.
FindLast(str, pat) ==
    LET hits == {k \in 0..(Len(str) - Len(pat)) :
                    SubStr(str, k, Len(pat)) = pat}
    IN  IF hits = {} THEN npos ELSE -SetMin({-k : k \in hits})

\* split_headers splitting each line at its last separator.
RECURSIVE split_headers_loop_last_separator(_, _, _)
split_headers_loop_last_separator(tokens, n, r) ==
    IF n > Len(tokens)
    THEN [ok |-> TRUE, req |-> r]
    ELSE LET token == tokens[n]
             iter == FindLast(token, KVSEP)
         IN  IF iter = npos
             THEN [ok |-> FALSE, req |-> r]
             ELSE split_headers_loop_last_separator(tokens, n + 1,
                    [r EXCEPT !.headers =
                        emplace(@, SubStr(token, 0, iter),
                                   SubStrFrom(token, iter + 2))])

(***************************************************************************)
(* Parser::split_headers: [ok, req]; req is the record as the loop left it *)
(* (the headers emplaced before a line without separator stay in it).      *)
(***************************************************************************)
RECURSIVE split_headers_loop(_, _, _)
split_headers_loop(tokens, n, r) ==
    IF n > Len(tokens)
    THEN [ok |-> TRUE, req |-> r]
    ELSE LET token == tokens[n]
             iter == Find(token, KVSEP, 0)
         IN  IF iter = npos
             THEN [ok |-> FALSE, req |-> r]
             ELSE split_headers_loop(tokens, n + 1,
                    [r EXCEPT !.headers =
                        emplace(@, SubStr(token, 0, iter),
                                   SubStrFrom(token, iter + 2))])

split_headers(str, r) == split_headers_loop(string_split(str, CRLF), 1, r)

(***************************************************************************)
(* The body of the scanning loop.  s is the state of one call:             *)
(*   req, i, state, headers, stop  as in the code,                         *)
(*   ret    "none", or the ParseResult a return statement gave,            *)
(*   reads  the buffer indices read so far.                                *)
(***************************************************************************)
Return(s, r) == [s EXCEPT !.ret = r]

Touch(s, k) == [s EXCEPT !.reads = @ \cup {k}]

\* The method case with the limit compared by > (a 33rd byte is appended).
MethodCase_limit_off_by_one(d, l, s) ==
    LET c == Byte(d, s.i) IN
    IF c = SPACE
    THEN IF s.req.method = <<>>
         THEN Return(s, "invalid_method")
         ELSE [s EXCEPT !.state = "url", !.i = @ + 1]
    ELSE IF c = CR \/ c = LF
    THEN Return(s, "invalid_format")
    ELSE IF Len(s.req.method) > max_method_len
         THEN Return(s, "method_too_long")
         ELSE [s EXCEPT !.req.method = Append(@, c), !.i = @ + 1]

\* The method case that leaves i where it is on the space after the method.
MethodCase_no_advance_on_space(d, l, s) ==
    LET c == Byte(d, s.i) IN
    IF c = SPACE
    THEN IF s.req.method = <<>>
         THEN Return(s, "invalid_method")
         ELSE [s EXCEPT !.state = "url"]
    ELSE IF c = CR \/ c = LF
    THEN Return(s, "invalid_format")
    ELSE IF Len(s.req.method) = max_method_len
         THEN Return(s, "method_too_long")
         ELSE [s EXCEPT !.req.method = Append(@, c), !.i = @ + 1]

\* The method case without the test for an empty method.
MethodCase_no_empty_check(d, l, s) ==
    LET c == Byte(d, s.i) IN
    IF c = SPACE
    THEN [s EXCEPT !.state = "url", !.i = @ + 1]
    ELSE IF c = CR \/ c = LF
    THEN Return(s, "invalid_format")
    ELSE IF Len(s.req.method) = max_method_len
         THEN Return(s, "method_too_long")
         ELSE [s EXCEPT !.req.method = Append(@, c), !.i = @ + 1]

\* case State::method
MethodCase(d, l, s) ==
    LET c == Byte(d, s.i) IN
    IF c = SPACE
    THEN IF s.req.method = <<>>
         THEN Return(s, "invalid_method")
         ELSE [s EXCEPT !.state = "url", !.i = @ + 1]
    ELSE IF c = CR \/ c = LF
    THEN Return(s, "invalid_format")
    ELSE IF Len(s.req.method) = max_method_len
         THEN Return(s, "method_too_long")
         ELSE [s EXCEPT !.req.method = Append(@, c), !.i = @ + 1]

\* The url case without the test for an empty url.
UrlCase_no_empty_check(d, l, s) ==
    LET c == Byte(d, s.i) IN
    IF c = SPACE
    THEN [s EXCEPT !.state = "version", !.i = @ + 1]
    ELSE IF c = CR \/ c = LF
    THEN Return(s, "invalid_format")
    ELSE IF Len(s.req.url) = max_url_len
         THEN Return(s, "url_too_long")
         ELSE [s EXCEPT !.req.url = Append(@, c), !.i = @ + 1]

\* case State::url
UrlCase(d, l, s) ==
    LET c == Byte(d, s.i) IN
    IF c = SPACE
    THEN IF s.req.url = <<>>
         THEN Return(s, "invalid_url")
         ELSE [s EXCEPT !.state = "version", !.i = @ + 1]
    ELSE IF c = CR \/ c = LF
    THEN Return(s, "invalid_format")
    ELSE IF Len(s.req.url) = max_url_len
         THEN Return(s, "url_too_long")
         ELSE [s EXCEPT !.req.url = Append(@, c), !.i = @ + 1]

\* The version case testing the next byte before testing that there is one.
VersionCase_lf_test_first(d, l, s) ==
    LET c == Byte(d, s.i) IN
    IF c = CR
    THEN IF s.req.version = <<>>
         THEN Return(s, "invalid_format")
         ELSE IF Byte(d, s.i + 1) # LF
         THEN Return(Touch(s, s.i + 1), "invalid_crlf")
         ELSE IF s.i + 1 >= l
         THEN Return(Touch(s, s.i + 1), "invalid_format")
         ELSE [Touch(s, s.i + 1) EXCEPT !.state = "headers", !.i = @ + 2]
    ELSE IF Len(s.req.version) = max_version_len
         THEN Return(s, "version_too_long")
         ELSE [s EXCEPT !.req.version = Append(@, c), !.i = @ + 1]

\* The version case without the test for an empty version.
VersionCase_no_empty_check(d, l, s) ==
    LET c == Byte(d, s.i) IN
    IF c = CR
    THEN IF s.i + 1 >= l
         THEN Return(s, "invalid_format")
         ELSE IF Byte(d, s.i + 1) # LF
         THEN Return(Touch(s, s.i + 1), "invalid_crlf")
         ELSE [Touch(s, s.i + 1) EXCEPT !.state = "headers", !.i = @ + 2]
    ELSE IF Len(s.req.version) = max_version_len
         THEN Return(s, "version_too_long")
         ELSE [s EXCEPT !.req.version = Append(@, c), !.i = @ + 1]

\* The version case reporting an empty version as invalid_version.
VersionCase_invalid_version(d, l, s) ==
    LET c == Byte(d, s.i) IN
    IF c = CR
    THEN IF s.req.version = <<>>
         THEN Return(s, "invalid_version")
         ELSE IF s.i + 1 >= l
         THEN Return(s, "invalid_format")
         ELSE IF Byte(d, s.i + 1) # LF
         THEN Return(Touch(s, s.i + 1), "invalid_crlf")
         ELSE [Touch(s, s.i + 1) EXCEPT !.state = "headers", !.i = @ + 2]
    ELSE IF Len(s.req.version) = max_version_len
         THEN Return(s, "version_too_long")
         ELSE [s EXCEPT !.req.version = Append(@, c), !.i = @ + 1]

\* case State::version
VersionCase(d, l, s) ==
    LET c == Byte(d, s.i) IN
    IF c = CR
    THEN IF s.req.version = <<>>
         THEN Return(s, "invalid_format")
         ELSE IF s.i + 1 >= l
         THEN Return(s, "invalid_format")
         ELSE IF Byte(d, s.i + 1) # LF
         THEN Return(Touch(s, s.i + 1), "invalid_crlf")
         ELSE [Touch(s, s.i + 1) EXCEPT !.state = "headers", !.i = @ + 2]
    ELSE IF Len(s.req.version) = max_version_len
         THEN Return(s, "version_too_long")
         ELSE [s EXCEPT !.req.version = Append(@, c), !.i = @ + 1]

\* The condition of line 170 without its two bounds tests.
BlankLineAhead_unguarded(d, l, k) ==
    IF Byte(d, k + 2) # CR THEN [value |-> FALSE, reads |-> {k + 2}]
    ELSE [value |-> Byte(d, k + 3) = LF, reads |-> {k + 2, k + 3}]

\* The condition of line 170, evaluated left to right with short circuit:
\* [value, reads].
BlankLineAhead(d, l, k) ==
    IF ~(k + 2 < l) THEN [value |-> FALSE, reads |-> {}]
    ELSE IF Byte(d, k + 2) # CR THEN [value |-> FALSE, reads |-> {k + 2}]
    ELSE IF ~(k + 3 < l) THEN [value |-> FALSE, reads |-> {k + 2}]
    ELSE [value |-> Byte(d, k + 3) = LF, reads |-> {k + 2, k + 3}]

\* The headers case without the branch for a lone LF (it is appended).
HeadersCase_lf_appended(d, l, s) ==
    LET c == Byte(d, s.i) IN
    IF c = CR
    THEN IF s.i + 1 >= l
         THEN Return(s, "invalid_format")
         ELSE IF Byte(d, s.i + 1) # LF
         THEN Return(Touch(s, s.i + 1), "invalid_format")
         ELSE LET ahead == BlankLineAhead(d, l, s.i)
                  s1 == [s EXCEPT !.reads = @ \cup {s.i + 1} \cup ahead.reads]
              IN  IF ahead.value
                  THEN [s1 EXCEPT !.stop = TRUE]
                  ELSE [s1 EXCEPT !.headers = @ \o CRLF, !.i = @ + 2]
    ELSE [s EXCEPT !.headers = Append(@, c), !.i = @ + 1]

\* The headers case that does not stop at the blank line: the CR LF is
\* appended and the scan goes on.
HeadersCase_blank_line_skipped(d, l, s) ==
    LET c == Byte(d, s.i) IN
    IF c = CR
    THEN IF s.i + 1 >= l
         THEN Return(s, "invalid_format")
         ELSE IF Byte(d, s.i + 1) # LF
         THEN Return(Touch(s, s.i + 1), "invalid_format")
         ELSE LET ahead == BlankLineAhead(d, l, s.i)
                  s1 == [s EXCEPT !.reads = @ \cup {s.i + 1} \cup ahead.reads]
              IN  [s1 EXCEPT !.headers = @ \o CRLF, !.i = @ + 2]
    ELSE IF c = LF
    THEN Return(s, "invalid_headers")
    ELSE [s EXCEPT !.headers = Append(@, c), !.i = @ + 1]

\* case State::headers
HeadersCase(d, l, s) ==
    LET c == Byte(d, s.i) IN
    IF c = CR
    THEN IF s.i + 1 >= l
         THEN Return(s, "invalid_format")
         ELSE IF Byte(d, s.i + 1) # LF
         THEN Return(Touch(s, s.i + 1), "invalid_format")
         ELSE LET ahead == BlankLineAhead(d, l, s.i)
                  s1 == [s EXCEPT !.reads = @ \cup {s.i + 1} \cup ahead.reads]
              IN  IF ahead.value
                  THEN [s1 EXCEPT !.stop = TRUE]
                  ELSE [s1 EXCEPT !.headers = @ \o CRLF, !.i = @ + 2]
    ELSE IF c = LF
    THEN Return(s, "invalid_headers")
    ELSE [s EXCEPT !.headers = Append(@, c), !.i = @ + 1]

\* The code after the loop.
PostLoop(s) ==
    LET sh == split_headers(s.headers, s.req) IN
    IF ~sh.ok
    THEN [s EXCEPT !.req = sh.req, !.ret = "invalid_headers"]
    ELSE [s EXCEPT !.req = sh.req, !.ret = "success"]

\* One iteration of the while loop: char c = data[i], then the switch.
LoopBody(d, l, s) ==
    LET s0 == Touch(s, s.i) IN
    CASE s.state = "method"  -> MethodCase(d, l, s0)
      [] s.state = "url"     -> UrlCase(d, l, s0)
      [] s.state = "version" -> VersionCase(d, l, s0)
      [] s.state = "headers" -> HeadersCase(d, l, s0)

(***************************************************************************)
(* Bounds of the model and the buffers the caller hands in.                *)
(***************************************************************************)
MaxHeaders == 2      \* header lines of a generated request
MaxRaw == 4          \* length of an arbitrary byte string
MaxCut == 3          \* bytes of the buffer beyond len
MaxCalls == 2        \* calls of parse on one record
LimitSlack == 1      \* token lengths around each limit

\* The letters and the colon used in generated text.
ch == [a |-> 97, b |-> 98, colon |-> 58]

Rep(c, n) == [k \in 1..n |-> c]

RECURSIVE Join(_, _)
\* Every line followed by the line terminator eol.
Join(ls, eol) ==
    IF ls = <<>> THEN <<>> ELSE Head(ls) \o eol \o Join(Tail(ls), eol)

\* <<method, target, version>>
Tokens == {<< <<ch.a>>, <<ch.b>>, <<ch.a>> >>,
           << <<ch.a, ch.b>>, <<ch.a, ch.colon>>, <<ch.b, ch.a>> >>}

Keys == {<<ch.a>>, <<ch.b>>, <<ch.a, ch.colon>>}
Values == {<<>>, <<ch.b, ch.colon, SPACE, ch.a>>}
GoodLines == {k \o KVSEP \o v : k \in Keys, v \in Values}
BadLines == {<<ch.a>>, <<ch.a, ch.colon, ch.b>>}
Lines == GoodLines \cup BadLines
Bodies == {<<>>, <<ch.a>>}

LineLists == UNION {[1..n -> Lines] : n \in 0..MaxHeaders}

\* METHOD SP TARGET SP VERSION eol1 (line eol2)* eol2 body
BuildWith(t, eol1, ls, eol2, b) ==
    t[1] \o <<SPACE>> \o t[2] \o <<SPACE>> \o t[3] \o eol1
         \o Join(ls, eol2) \o eol2 \o b

\* METHOD SP TARGET SP VERSION CRLF (line CRLF)* CRLF body
Build(t, ls, b) == BuildWith(t, CRLF, ls, CRLF, b)

Requests == {Build(t, ls, b) : t \in Tokens, ls \in LineLists, b \in Bodies}

\* The same with a lone LF ending the request line, the header lines, or both.
LFRequests ==
    {BuildWith(<< <<ch.a>>, <<ch.b>>, <<ch.a>> >>, e[1], ls, e[2], <<>>) :
        e \in {<< <<LF>>, CRLF >>, << CRLF, <<LF>> >>, << <<LF>>, <<LF>> >>},
        ls \in LineLists}

\* Arbitrary bytes after a prefix that leads into each parser state.
RawBytes == {ch.a, ch.colon, SPACE, CR, LF}
RawStrings == UNION {[1..n -> RawBytes] : n \in 0..MaxRaw}
Prefixes ==
    {<<>>,
     <<ch.a, SPACE>>,
     <<ch.a, SPACE, ch.b, SPACE>>,
     <<ch.a, SPACE, ch.b, SPACE, ch.a>> \o CRLF}
RawInputs == {p \o r : p \in Prefixes, r \in RawStrings}

Inputs == Requests \cup LFRequests \cup RawInputs

\* Requests whose tokens are as long as each limit, or LimitSlack around it.
Around(n) == {k \in (n - LimitSlack)..(n + LimitSlack) : k >= 1}
LimitRequest(nm, nu, nv) ==
    Build(<<Rep(ch.a, nm), Rep(ch.b, nu), Rep(ch.a, nv)>>,
          << <<ch.a>> \o KVSEP \o <<ch.b>> >>, <<>>)
LimitInputs ==
    {LimitRequest(nm, nu, nv) :
        nm \in Around(max_method_len), nu \in Around(max_url_len),
        nv \in Around(max_version_len)}

(***************************************************************************)
(* The caller: a buffer, a length not larger than the buffer, and a        *)
(* default-constructed Request (main, lines 229-238).                      *)
(***************************************************************************)
InitWith(buffers, cut) ==
    /\ data \in buffers
    /\ len \in {l \in 0..Len(data) : Len(data) - l <= cut}
    /\ req = Request
    /\ i = 0
    /\ state = "method"
    /\ headers = <<>>
    /\ stop = FALSE
    /\ result = "none"
    /\ pc = "idle"
    /\ reads = {}
    /\ req0 = Request
    /\ calls = 0
    /\ prev = [result |-> "none", req |-> Request]

Init == InitWith(Inputs, MaxCut)

InitLimits == InitWith(LimitInputs, 0)

\* Entry of parse: the locals of lines 84-87; req is the caller's record.
Enter ==
    /\ i' = 0
    /\ state' = "method"
    /\ headers' = <<>>
    /\ stop' = FALSE
    /\ reads' = {}
    /\ result' = "none"
    /\ req0' = req
    /\ pc' = "loop"
    /\ calls' = calls + 1
    /\ UNCHANGED <<data, len, req>>

\* The first call, on the new record.
Call ==
    /\ pc = "idle"
    /\ Enter
    /\ UNCHANGED prev

\* A further call on the same buffer, with the record the last call left.
Recall ==
    /\ pc = "done"
    /\ calls < MaxCalls
    /\ Enter
    /\ prev' = [result |-> result, req |-> req]

Local ==
    [req |-> req, i |-> i, state |-> state, headers |-> headers,
     stop |-> stop, ret |-> "none", reads |-> reads]

Commit(t) ==
    /\ req' = t.req
    /\ i' = t.i
    /\ state' = t.state
    /\ headers' = t.headers
    /\ stop' = t.stop
    /\ reads' = t.reads
    /\ result' = t.ret
    /\ pc' = IF t.ret = "none" THEN "loop" ELSE "done"
    /\ UNCHANGED <<data, len, req0, calls, prev>>

\* The loop guard of line 89.
InLoop == pc = "loop" /\ i < len /\ ~stop

MethodStep == InLoop /\ state = "method" /\ Commit(LoopBody(data, len, Local))

UrlStep == InLoop /\ state = "url" /\ Commit(LoopBody(data, len, Local))

VersionStep == InLoop /\ state = "version" /\ Commit(LoopBody(data, len, Local))

HeadersStep == InLoop /\ state = "headers" /\ Commit(LoopBody(data, len, Local))

\* Lines 193-197, once the loop guard fails.
Finish == pc = "loop" /\ ~(i < len /\ ~stop) /\ Commit(PostLoop(Local))

Next == Call \/ MethodStep \/ UrlStep \/ VersionStep \/ HeadersStep \/ Finish

Spec == Init /\ [][Next]_vars

NextReuse == Next \/ Recall

SpecReuse == Init /\ [][NextReuse]_vars

SpecLimits == InitLimits /\ [][Next]_vars

\* Both families of buffers.
InitAll == InitWith(Inputs, MaxCut) \/ InitWith(LimitInputs, 0)

SpecAll == InitAll /\ [][Next]_vars


\* What may follow the blank line: nothing, text, line ends, and text that
\* reads like a further header block.
BodyTexts ==
    {<<>>, <<ch.a>>, <<CR>>, <<LF>>, CRLF,
     <<ch.b>> \o KVSEP \o <<ch.a>> \o CRLF \o CRLF}

\* Header lines that are empty or hold a CR or an LF of their own.
OddLines == {<<>>, <<ch.a, LF>>, <<CR, ch.a>>}

\* Requests that end with the blank line.
BodyInputs ==
    {Build(t, ls, <<>>) : t \in Tokens, ls \in LineLists}
        \cup {Build(t, <<x>>, <<>>) : t \in Tokens, x \in OddLines}

InitBody == InitWith(BodyInputs, MaxCut)

\* Requests with one header line, and the shorter arbitrary byte strings.
FairInputs ==
    {Build(t, <<x>>, b) : t \in Tokens, x \in Lines \cup OddLines, b \in Bodies}
        \cup {p \o r : p \in Prefixes, r \in {x \in RawStrings : Len(x) + Len(x) <= MaxRaw}}

InitFair == InitWith(FairInputs, MaxCut)

\* The call runs as sequential code: a step that can be taken is taken.
SpecFair == InitFair /\ [][Next]_vars /\ WF_vars(Next)

\* Where the first CR LF CR LF at or after the end of the first line
\* starts in d, or npos.
FirstBlankLine(d) ==
    LET eol == Find(d, CRLF, 0) IN
    IF eol = npos THEN npos ELSE Find(d, CRLF \o CRLF, eol + 2)

\* main run again with a new record, on a buffer that agrees with the last
\* one up to and including the blank line and on a length that covers it.
Reparse ==
    /\ pc = "done"
    /\ calls < MaxCalls
    /\ LET q == FirstBlankLine(data) IN
        /\ q # npos
        /\ q + 4 <= len
        /\ \E b \in BodyTexts :
              LET d == SubStr(data, 0, q + 4) \o b IN
              \E l \in {n \in (q + 4)..Len(d) : Len(d) - n <= MaxCut} :
                 /\ <<d, l>> # <<data, len>>
                 /\ data' = d
                 /\ len' = l
    /\ req' = Request
    /\ req0' = Request
    /\ prev' = [result |-> result, req |-> req]
    /\ i' = 0
    /\ state' = "method"
    /\ headers' = <<>>
    /\ stop' = FALSE
    /\ reads' = {}
    /\ result' = "none"
    /\ pc' = "loop"
    /\ calls' = calls + 1

NextBody == Next \/ Reparse

SpecBody == InitBody /\ [][NextBody]_vars

(***************************************************************************)
(* Properties.                                                             *)
(***************************************************************************)
Range(s) == {s[k] : k \in 1..Len(s)}

\* parse has returned from its first call, which got the new record.
FirstDone == pc = "done" /\ calls = 1

\* Lists of <<key, value>> with pairwise distinct keys, at least one pair.
HeaderLists ==
    {hs \in UNION {[1..n -> Keys \X Values] : n \in 1..MaxHeaders} :
        \A x, y \in 1..Len(hs) : x # y => hs[x][1] # hs[y][1]}

LinesOf(hs) == [n \in 1..Len(hs) |-> hs[n][1] \o KVSEP \o hs[n][2]]

MapOf(hs) ==
    [k \in {hs[n][1] : n \in 1..Len(hs)} |->
        hs[CHOOSE n \in 1..Len(hs) : hs[n][1] = k][2]]

\* C1: a valid request with at least one header line and pairwise distinct
\* keys, parsed into an empty record with len the full input length, gives
\* success, and the record holds exactly METHOD, TARGET, VERSION and the map
\* of every KEY to its VALUE.
C1_ValidRequestParsed ==
    (FirstDone /\ len = Len(data)) =>
        \A t \in Tokens, hs \in HeaderLists :
            data = Build(t, LinesOf(hs), <<>>) =>
                /\ result = "success"
                /\ req = [method |-> t[1], url |-> t[2], version |-> t[3],
                          headers |-> MapOf(hs)]

C1_Witness ==
    /\ FirstDone /\ len = Len(data) /\ result = "success" /\ stop
    /\ \E t \in Tokens, hs \in HeaderLists :
          Len(hs) = 2 /\ data = Build(t, LinesOf(hs), <<>>)

\* C2: a valid request with zero header lines (the request line, then the
\* blank line) gives success, the three fields and an empty header map.
C2_ZeroHeadersParsed ==
    (FirstDone /\ len = Len(data)) =>
        \A t \in Tokens :
            data = Build(t, <<>>, <<>>) =>
                /\ result = "success"
                /\ req = [method |-> t[1], url |-> t[2], version |-> t[3],
                          headers |-> EmptyMap]

\* C3: parse returns success only when the pass stopped at the terminating
\* blank line (stop was set in the headers state).
C3_SuccessOnlyAtBlankLine ==
    (pc = "done" /\ result = "success") => stop

\* C4: on every result other than success the caller's record is as it was
\* before the call.
C4_ErrorLeavesRecord ==
    (pc = "done" /\ result # "success") => req = req0

\* C5: a second call on the same buffer and length gives the same result and
\* the same record as the first, whatever the record held at its entry.
C5_RecallSameOutcome ==
    (pc = "done" /\ calls >= 2) => (result = prev.result /\ req = prev.req)

\* C6: every buffer index parse reads is strictly less than len.
C6_ReadsBelowLen == \A k \in reads : 0 <= k /\ k < len

\* A call that met a CR as the last byte within len of a longer buffer, and
\* one that looked four bytes ahead up to the last byte within len.
C6_Witness ==
    /\ pc = "done" /\ state = "headers"
    /\ \/ len < Len(data) /\ i = len - 1 /\ Byte(data, i) = CR /\ i \in reads
       \/ stop /\ i + 3 = len - 1 /\ {i + 1, i + 2, i + 3} \subseteq reads

\* C7: in an otherwise valid request a method of 32 bytes, a url of 1024
\* bytes and a version of 32 bytes are accepted; a 33rd method byte gives
\* method_too_long, a 1025th url byte url_too_long, a 33rd version byte
\* version_too_long.
C7_LimitsExact ==
    pc = "done" =>
        \A nm \in Around(max_method_len), nu \in Around(max_url_len),
           nv \in Around(max_version_len) :
            data = LimitRequest(nm, nu, nv) =>
                /\ result = IF nm > max_method_len THEN "method_too_long"
                            ELSE IF nu > max_url_len THEN "url_too_long"
                            ELSE IF nv > max_version_len THEN "version_too_long"
                            ELSE "success"
                /\ result = "success" =>
                     /\ req.method = Rep(ch.a, nm)
                     /\ req.url = Rep(ch.b, nu)
                     /\ req.version = Rep(ch.a, nv)

C7_Witness ==
    /\ pc = "done" /\ result = "success"
    /\ Len(req.method) = max_method_len
    /\ Len(req.url) = max_url_len
    /\ Len(req.version) = max_version_len

\* C8: a space as the first byte gives invalid_method, and a space directly
\* after the space that ends a method gives invalid_url, whatever follows.
C8_EmptyTokenRejected ==
    FirstDone =>
        /\ (len >= 1 /\ Byte(data, 0) = SPACE) => result = "invalid_method"
        /\ \A p \in 1..max_method_len :
              ( /\ p + 1 < len
                /\ \A k \in 0..(p - 1) : Byte(data, k) \notin {SPACE, CR, LF}
                /\ Byte(data, p) = SPACE
                /\ Byte(data, p + 1) = SPACE ) => result = "invalid_url"

C8_Witness ==
    /\ FirstDone /\ result = "invalid_url" /\ i + 1 < len
    /\ Byte(data, i) = SPACE /\ Byte(data, i - 1) = SPACE

\* C9: a lone LF directly after the version gives invalid_crlf, and a
\* successfully parsed version holds no LF.
C9_LoneLFAfterVersion ==
    FirstDone =>
        /\ result = "success" => LF \notin Range(req.version)
        /\ \A t \in Tokens, ls \in LineLists, e \in {CRLF, <<LF>>} :
              (data = BuildWith(t, <<LF>>, ls, e, <<>>) /\ len = Len(data))
                  => result = "invalid_crlf"

\* Where the headers state was entered by a call on an empty record.
HeadersFrom == Len(req.method) + 1 + Len(req.url) + 1 + Len(req.version) + 2

\* C10: an LF read in the headers state that is not the second byte of a
\* CR LF pair gives invalid_headers, and no call that ends in success has
\* such an LF in the header block it scanned.
C10_BareLFInHeaders ==
    FirstDone =>
        /\ (state = "headers" /\ ~stop /\ i < len /\ Byte(data, i) = LF)
              => result = "invalid_headers"
        /\ result = "success" =>
              \A k \in HeadersFrom..((IF i < len THEN i ELSE len) - 1) :
                  Byte(data, k) = LF =>
                      (k > HeadersFrom /\ Byte(data, k - 1) = CR)

C10_Witness ==
    /\ FirstDone /\ state = "headers" /\ headers # <<>>
    /\ i < len /\ Byte(data, i) = LF /\ result = "invalid_headers"

\* C11: a well-framed request whose header block holds a line without ": "
\* gives invalid_headers, whatever valid lines precede or follow that line.
C11_BadLineRejectsRequest ==
    (FirstDone /\ len = Len(data)) =>
        \A t \in Tokens, ls \in LineLists :
            ( /\ \E n \in 1..Len(ls) : ls[n] \in BadLines
              /\ data = Build(t, ls, <<>>) ) => result = "invalid_headers"

\* The blank line was seen, and a valid line had been stored before the bad one.
C11_Witness ==
    /\ FirstDone /\ len = Len(data) /\ stop /\ result = "invalid_headers"
    /\ DOMAIN req.headers # {}
    /\ \E t \in Tokens, ls \in LineLists :
          /\ Len(ls) >= 2 /\ ls[1] \in GoodLines /\ ls[2] \in BadLines
          /\ data = Build(t, ls, <<>>)

\* Lists of <<key, value>>, keys may repeat, at least one pair.
AnyHeaderLists == UNION {[1..n -> Keys \X Values] : n \in 1..MaxHeaders}

FirstValue(hs, k) ==
    hs[SetMin({n \in 1..Len(hs) : hs[n][1] = k})][2]

\* C12: when a key occurs in several header lines, a successful parse holds
\* the value of its first occurrence; later ones neither overwrite nor fail.
C12_FirstKeyWins ==
    (FirstDone /\ len = Len(data)) =>
        \A t \in Tokens, hs \in AnyHeaderLists :
            data = Build(t, LinesOf(hs), <<>>) =>
                /\ result = "success"
                /\ DOMAIN req.headers = {hs[n][1] : n \in 1..Len(hs)}
                /\ \A k \in DOMAIN req.headers :
                      req.headers[k] = FirstValue(hs, k)

C12_Witness ==
    /\ FirstDone /\ len = Len(data) /\ result = "success"
    /\ \E t \in Tokens, hs \in AnyHeaderLists :
          /\ Len(hs) = 2 /\ hs[1][1] = hs[2][1] /\ hs[1][2] # hs[2][2]
          /\ data = Build(t, LinesOf(hs), <<>>)
          /\ req.headers[hs[1][1]] = hs[1][2]

\* C13: whenever a call on an empty record returns success, method, url and
\* version are non-empty and at most 32, 1024 and 32 bytes long, method and
\* url hold no space, CR or LF, and version holds no CR.
C13_SuccessFieldsWellFormed ==
    (FirstDone /\ result = "success") =>
        /\ req.method # <<>> /\ req.url # <<>> /\ req.version # <<>>
        /\ Len(req.method) <= max_method_len
        /\ Len(req.url) <= max_url_len
        /\ Len(req.version) <= max_version_len
        /\ Range(req.method) \cap {SPACE, CR, LF} = {}
        /\ Range(req.url) \cap {SPACE, CR, LF} = {}
        /\ CR \notin Range(req.version)

\* A success with the url at its limit, and one whose version holds an LF.
C13_Witness ==
    /\ FirstDone /\ result = "success"
    /\ \/ Len(req.url) = max_url_len
       \/ LF \in Range(req.version)

\* C14: parse never returns invalid_version; every result is one of the
\* other nine kinds.
C14_NeverInvalidVersion ==
    /\ result \in (ParseResult \ {"invalid_version"}) \cup {"none"}
    /\ pc = "done" => result \in ParseResult \ {"invalid_version"}

\* A call that ended at a CR in the version state with the version empty.
C14_Witness ==
    /\ pc = "done" /\ state = "version" /\ req.version = <<>>
    /\ i < len /\ Byte(data, i) = CR /\ result = "invalid_format"

\* C15: a CR read in the version state is handled in this order: empty
\* version gives invalid_format; CR as the last byte within len gives
\* invalid_format; a next byte other than LF gives invalid_crlf; otherwise i
\* advances by 2, nothing is appended to version and the state is headers.
C15_VersionCROrder ==
    [][ (pc = "loop" /\ i < len /\ ~stop /\ state = "version"
            /\ Byte(data, i) = CR) =>
          IF req.version = <<>>
          THEN pc' = "done" /\ result' = "invalid_format"
          ELSE IF i + 1 >= len
          THEN pc' = "done" /\ result' = "invalid_format"
          ELSE IF Byte(data, i + 1) # LF
          THEN pc' = "done" /\ result' = "invalid_crlf"
          ELSE /\ pc' = "loop" /\ i' = i + 2 /\ state' = "headers"
               /\ req' = req /\ headers' = headers ]_vars

\* The headers state just entered, right after the CR LF of the version.
C15_Witness ==
    /\ pc = "loop" /\ calls = 1 /\ state = "headers" /\ headers = <<>>
    /\ i = HeadersFrom /\ i >= 2
    /\ Byte(data, i - 2) = CR /\ Byte(data, i - 1) = LF

\* The first call ran out of bytes right after the CR LF that ends a
\* non-empty header line.
EndsAtHeaderCRLF ==
    /\ FirstDone /\ state = "headers" /\ ~stop
    /\ i = len /\ i >= HeadersFrom + 3
    /\ Byte(data, i - 2) = CR /\ Byte(data, i - 1) = LF

\* The first call met, as the last byte within len, a CR that follows the
\* CR LF of a non-empty header line.
EndsAtCRAfterHeaderCRLF ==
    /\ FirstDone /\ state = "headers" /\ ~stop
    /\ i = len - 1 /\ i >= HeadersFrom + 3
    /\ Byte(data, i - 2) = CR /\ Byte(data, i - 1) = LF /\ Byte(data, i) = CR

\* C16 as stated: a buffer that ends at the CR LF of a header line (here one
\* whose first line has its separator), or at a single CR after it, gives
\* invalid_format.
C16_EndAtCRLFInvalidFormat ==
    /\ (EndsAtHeaderCRLF /\ DOMAIN req.headers # {})
          => result = "invalid_format"
    /\ EndsAtCRAfterHeaderCRLF => result = "invalid_format"

\* C16 as amended: a buffer that ends exactly at a CR LF in the headers
\* state gives invalid_headers (the empty last line has no separator); one
\* that ends at a single CR after that CR LF gives invalid_format.
C16_EndAtCRLFAmended ==
    /\ EndsAtHeaderCRLF => result = "invalid_headers"
    /\ EndsAtCRAfterHeaderCRLF => result = "invalid_format"

\* The buffer ends at the CR LF of a valid header line.
C16_Witness ==
    /\ EndsAtHeaderCRLF /\ result = "invalid_headers"
    /\ DOMAIN req.headers # {}

\* A string that holds the separator ": ".
HasSeparator(str) ==
    \E k \in 1..(Len(str) - 1) : str[k] = KVSEP[1] /\ str[k + 1] = KVSEP[2]

\* C17: a header line is split at its first ": ": the key is the bytes
\* before it and the value all bytes after it, verbatim.  A value that holds
\* ": " is stored whole under the key before the first separator, an empty
\* value is accepted, and no stored key holds a separator.
C17_SplitAtFirstSeparator ==
    FirstDone =>
        /\ result = "success" =>
              \A k \in DOMAIN req.headers : ~HasSeparator(k)
        /\ \A t \in Tokens, k \in Keys, v \in Values, b \in Bodies :
              ( /\ data = Build(t, <<k \o KVSEP \o v>>, b)
                /\ len = Len(data) ) =>
                  /\ result = "success"
                  /\ DOMAIN req.headers = {k}
                  /\ req.headers[k] = v

\* A line whose value holds the separator, stored under the first key.
C17_Witness ==
    /\ FirstDone /\ result = "success" /\ len = Len(data)
    /\ \E k \in DOMAIN req.headers :
          /\ HasSeparator(req.headers[k])
          /\ \E t \in Tokens :
                data = Build(t, <<k \o KVSEP \o req.headers[k]>>, <<>>)

\* C18: two buffers and lengths that agree on every byte up to and including
\* the first blank line after the request line give the same result and the
\* same record, whatever follows the blank line, and no index beyond the
\* blank line is read.
C18_BodyIgnored ==
    /\ (pc = "done" /\ calls = 2) =>
          (result = prev.result /\ req = prev.req)
    /\ LET q == FirstBlankLine(data) IN
          (q # npos /\ q + 4 <= len) => \A k \in reads : k < q + 4

\* The second of two successful runs, on a buffer with bytes after the
\* blank line that read like a further header line.
C18_Witness ==
    /\ pc = "done" /\ calls = 2 /\ result = "success" /\ stop
    /\ i + 4 < len
    /\ Find(data, KVSEP, i + 4) # npos
    /\ DOMAIN req.headers # {}

\* C19: every iteration of the scanning loop returns a result, sets stop, or
\* increases i by 1 or 2; i never decreases and never passes len; and every
\* call of parse returns.
C19_ParseTerminates ==
    /\ [][ /\ pc = "loop" => (i' >= i /\ i' <= len)
           /\ (pc = "loop" /\ i < len /\ ~stop) =>
                 (pc' = "done" \/ stop' \/ i' = i + 1 \/ i' = i + 2) ]_vars
    /\ <>(pc = "done")

\* A call that returned after the loop had consumed every byte within len,
\* the last step over a CR LF.
C19_Witness ==
    /\ FirstDone /\ ~stop /\ state = "headers" /\ len > 0 /\ i = len
    /\ Byte(data, i - 2) = CR /\ Byte(data, i - 1) = LF
    /\ reads = 0..(len - 1)

\* C20: within a call the parser state only moves method -> url -> version
\* -> headers, one step at a time: to url on a space with the method
\* non-empty, to version on a space with the url non-empty, to headers on
\* CR LF with the version non-empty; and header bytes are accumulated only
\* in the headers state, with all three fields non-empty.
C20_StateOrder ==
    [][ pc = "loop" =>
          /\ \/ state' = state
             \/ /\ state = "method" /\ state' = "url"
                /\ Byte(data, i) = SPACE /\ req.method # <<>>
             \/ /\ state = "url" /\ state' = "version"
                /\ Byte(data, i) = SPACE /\ req.url # <<>>
             \/ /\ state = "version" /\ state' = "headers"
                /\ i + 1 < len
                /\ Byte(data, i) = CR /\ Byte(data, i + 1) = LF
                /\ req.version # <<>>
          /\ headers' # headers =>
                /\ state = "headers" /\ state' = "headers"
                /\ req.method # <<>> /\ req.url # <<>> /\ req.version # <<>>
                /\ req' = req ]_vars

\* Header bytes have been accumulated in the first call.
C20_Witness ==
    /\ pc = "loop" /\ calls = 1 /\ state = "headers"
    /\ headers # <<>> /\ i < len
    /\ req.method # <<>> /\ req.url # <<>> /\ req.version # <<>>

====
